---------------------------- MODULE Spec2Model ----------------------------
(***************************************************************************)
(* Model of src/app.py: ColorAnalyzer (grid detection, colour sampling,    *)
(* outlier classification).                                                *)
(*                                                                         *)
(* Numbers.  The program computes in float64.  Here a colour channel, a    *)
(* distance and every statistic derived from them is an integer count of   *)
(* 1/FP units (fixed point, rounded down); comparisons against the         *)
(* program's thresholds are cross-multiplied so that no threshold is       *)
(* rounded.  A sensitivity is an integer count of tenths, as the slider    *)
(* of MainWindow produces it (value / 10.0).                               *)
(***************************************************************************)
EXTENDS Integers, Sequences, FiniteSets, TLC

\* Fixed-point denominator of colours and distances.
FP == 100
\* Longest colour list drawn from Palette in SpecFD.
MaxN == 4
\* Widest striped image handed to analyze in Spec.
MaxStripe == 5

\* MainWindow.on_sensitivity_changed: sensitivity = slider value / 10.0
SensDen == 10

---------------------------------------------------------------------------
\* numeric helpers (numpy)

Abs(x) == IF x < 0 THEN -x ELSE x
Min(a, b) == IF a < b THEN a ELSE b
Max(a, b) == IF a > b THEN a ELSE b

RECURSIVE ISqrtIter(_, _)
ISqrtIter(n, x) ==
    LET y == (x + n \div x) \div 2
    IN  IF y >= x THEN x ELSE ISqrtIter(n, y)

\* np.sqrt on a fixed-point square: floor of the square root
ISqrt(n) == IF n < 2 THEN n ELSE ISqrtIter(n, IF n < 65536 THEN 256 ELSE 46341)

\* sum of f[lo] .. f[hi]
RECURSIVE SumFn(_, _, _)
SumFn(f, lo, hi) == IF lo > hi THEN 0 ELSE f[lo] + SumFn(f, lo + 1, hi)

\* the sequence s with every element computed (an array, not a generator)
Array(s) == s \o << >>

\* np.sum of a sequence
SumSeq(s) == SumFn(s, 1, Len(s))

\* np.mean of a non-empty sequence
MeanSeq(s) == SumSeq(s) \div Len(s)

\* np.max
RECURSIVE MaxSeq(_)
MaxSeq(s) == IF Len(s) = 1 THEN s[1] ELSE Max(Head(s), MaxSeq(Tail(s)))

\* np.std (population standard deviation)
StdSeq(s) ==
    LET m == MeanSeq(s)
    IN  ISqrt(SumSeq([i \in 1..Len(s) |-> (s[i] - m) * (s[i] - m)]) \div Len(s))

\* np.median: the middle element, or the mean of the two middle elements
Median(s) ==
    LET t == SortSeq(s, LAMBDA a, b : a < b)
        n == Len(t)
    IN  IF n % 2 = 1 THEN t[(n + 1) \div 2]
        ELSE (t[n \div 2] + t[(n \div 2) + 1]) \div 2

\* np.where(mask)[0].tolist(): the 0-based indices where mask holds, ascending
Where(mask) ==
    SelectSeq([i \in 1..Len(mask) |-> i - 1], LAMBDA i : mask[i + 1])

\* np.argmax: 0-based index of the first maximum
ArgMax(s) ==
    LET m == MaxSeq(s)
    IN  (CHOOSE i \in 1..Len(s) : s[i] = m /\ \A j \in 1..(i - 1) : s[j] # m) - 1

\* np.sqrt(np.sum((a - b) ** 2)) of two colours
Dist(a, b) ==
    ISqrt((a[1] - b[1]) * (a[1] - b[1]) + (a[2] - b[2]) * (a[2] - b[2])
          + (a[3] - b[3]) * (a[3] - b[3]))

\* np.mean(colors[idxs], axis=0): idxs a non-empty sequence of 0-based indices
MeanColor(colors, idxs) ==
    Array([k \in 1..3 |->
             SumSeq([i \in 1..Len(idxs) |-> colors[idxs[i] + 1][k]]) \div Len(idxs)])

\* np.median(colors, axis=0)
MedianColor(colors) ==
    Array([k \in 1..3 |-> Median([i \in 1..Len(colors) |-> colors[i][k]])])

\* np.allclose(a, b): |a - b| <= atol + rtol * |b| with rtol = 1e-5; atol = 1e-8
\* is below the fixed-point resolution
AllClose(a, b) == \A k \in 1..3 : Abs(a[k] - b[k]) <= Abs(b[k]) \div 100000

---------------------------------------------------------------------------
\* ColorAnalyzer._find_different

\* faulty variant of BelowThreshold: min_threshold = 10 * sensitivity
BelowThresholdTimes(x, sens) == x * SensDen < 10 * sens * FP

\* faulty variant of AboveThreshold: min_threshold = 10 * sensitivity
AboveThresholdTimes(x, sens) == x * SensDen > 10 * sens * FP

\* x < min_threshold, min_threshold = 10 / sensitivity  (sens # 0, in tenths;
\* multiplying by a negative sensitivity turns the comparison round)
BelowThreshold(x, sens) ==
    IF sens > 0 THEN x * sens < 10 * SensDen * FP ELSE x * sens > 10 * SensDen * FP

\* x > min_threshold
AboveThreshold(x, sens) ==
    IF sens > 0 THEN x * sens > 10 * SensDen * FP ELSE x * sens < 10 * SensDen * FP

\* avg_distances: mean distance of each colour to all the others
AvgDistances(colors) ==
    LET n == Len(colors)
    IN  Array([i \in 1..n |->
            SumSeq([j \in 1..(n - 1) |->
                     Dist(colors[i], colors[IF j < i THEN j ELSE j + 1])])
            \div (n - 1)])

\* faulty variant of ZScoreOutliers: the comparison reads z < 1.5
ZScoreBelow(avg_distances) ==
    LET mean_avg_dist == MeanSeq(avg_distances)
        std_avg_dist  == StdSeq(avg_distances)
    IN  IF std_avg_dist * 10 > FP
        THEN Where([i \in 1..Len(avg_distances) |->
                      2 * (avg_distances[i] - mean_avg_dist) < 3 * std_avg_dist])
        ELSE << >>

\* strategy 2: z-score of avg_distances, outliers have z > 1.5
ZScoreOutliers(avg_distances) ==
    LET mean_avg_dist == MeanSeq(avg_distances)
        std_avg_dist  == StdSeq(avg_distances)
    IN  IF std_avg_dist * 10 > FP
        THEN Where([i \in 1..Len(avg_distances) |->
                      2 * (avg_distances[i] - mean_avg_dist) > 3 * std_avg_dist])
        ELSE << >>

DistancesToMedian(colors) ==
    LET median_color == MedianColor(colors)
    IN  Array([i \in 1..Len(colors) |-> Dist(colors[i], median_color)])

\* strategy 3: modified z-score 0.6745 * (d - median) / mad > 2.5
MADOutliers(distances_to_median) ==
    LET med == Median(distances_to_median)
        mad == Median([i \in 1..Len(distances_to_median) |->
                          Abs(distances_to_median[i] - med)])
    IN  IF mad * 10 > FP
        THEN Where([i \in 1..Len(distances_to_median) |->
                      1349 * (distances_to_median[i] - med) > 5000 * mad])
        ELSE << >>

\* strategy 4, seeding: the first pair (i < j, row-major) of maximum distance
MaxPair(colors) ==
    LET n == Len(colors)
        pairs == {p \in (0..(n - 1)) \X (0..(n - 1)) : p[1] < p[2]}
        d(p) == Dist(colors[p[1] + 1], colors[p[2] + 1])
        best == IF \A p \in pairs : d(p) = 0
                THEN <<0, 1>>
                ELSE CHOOSE p \in pairs :
                       /\ \A q \in pairs : d(q) <= d(p)
                       /\ \A q \in pairs :
                            (d(q) = d(p) /\ q # p) =>
                              (p[1] < q[1] \/ (p[1] = q[1] /\ p[2] < q[2]))
    IN  [dist |-> IF \A p \in pairs : d(p) = 0 THEN 0 ELSE d(best),
         center1_idx |-> best[1], center2_idx |-> best[2]]

\* strategy 4, the loop "for _ in range(10)": returns the clusters of the last
\* iteration executed
RECURSIVE KMeans(_, _, _, _)
KMeans(colors, center1, center2, iter) ==
    LET n == Len(colors)
        cluster1 == Where([i \in 1..n |->
                      Dist(colors[i], center1) <= Dist(colors[i], center2)])
        cluster2 == Where([i \in 1..n |->
                      Dist(colors[i], center1) > Dist(colors[i], center2)])
    IN  IF Len(cluster1) = 0 \/ Len(cluster2) = 0
        THEN [cluster1 |-> cluster1, cluster2 |-> cluster2]
        ELSE LET new_center1 == MeanColor(colors, cluster1)
                 new_center2 == MeanColor(colors, cluster2)
             IN  IF (AllClose(center1, new_center1) /\ AllClose(center2, new_center2))
                    \/ iter >= 10
                 THEN [cluster1 |-> cluster1, cluster2 |-> cluster2]
                 ELSE KMeans(colors, new_center1, new_center2, iter + 1)

\* faulty variant of MinorityCluster: clusters of equal size yield the first
MinorityClusterTie(cl) ==
    IF Len(cl.cluster1) > 0 /\ Len(cl.cluster2) > 0
    THEN IF Len(cl.cluster1) <= Len(cl.cluster2) THEN cl.cluster1
         ELSE cl.cluster2
    ELSE << >>

\* faulty variant of MinorityCluster: the larger cluster is returned
MajorityCluster(cl) ==
    IF Len(cl.cluster1) > 0 /\ Len(cl.cluster2) > 0
    THEN IF Len(cl.cluster1) < Len(cl.cluster2) THEN cl.cluster2
         ELSE IF Len(cl.cluster2) < Len(cl.cluster1) THEN cl.cluster1
         ELSE << >>
    ELSE << >>

\* the smaller cluster, if both are non-empty and their sizes differ
MinorityCluster(cl) ==
    IF Len(cl.cluster1) > 0 /\ Len(cl.cluster2) > 0
    THEN IF Len(cl.cluster1) < Len(cl.cluster2) THEN cl.cluster1
         ELSE IF Len(cl.cluster2) < Len(cl.cluster1) THEN cl.cluster2
         ELSE << >>
    ELSE << >>

\* strategy 5: the colour farthest from the median colour.  For two colours
\* the median is their midpoint and both distances are equal in exact
\* arithmetic; which index np.argmax then returns is decided by the rounding of
\* the float64 distances, here by the rounding of the fixed-point ones.
LastResort(distances_to_median, sens) ==
    LET max_idx == ArgMax(distances_to_median)
    IN  IF AboveThreshold(distances_to_median[max_idx + 1], sens)
        THEN <<max_idx>> ELSE << >>

\* strategies 3 to 5, entered when the z-score test yields nothing
AfterZScore(colors, sens) ==
    LET distances_to_median == DistancesToMedian(colors)
        outliers_mad == MADOutliers(distances_to_median)
    IN  IF Len(outliers_mad) > 0 THEN outliers_mad
        ELSE LET mp == MaxPair(colors)
             IN  IF BelowThreshold(mp.dist, sens) THEN << >>
                 ELSE LET minority ==
                            MinorityCluster(KMeans(colors,
                                                   colors[mp.center1_idx + 1],
                                                   colors[mp.center2_idx + 1], 1))
                      IN  IF Len(minority) > 0 THEN minority
                          ELSE LastResort(distances_to_median, sens)

\* line 574: 10 / sensitivity raises ZeroDivisionError when the sensitivity
\* is 0; the early return of line 559 comes first
FindDifferentRaises(cell_colors, sens) == Len(cell_colors) >= 2 /\ sens = 0

\* the list returned when the call does not raise
FindDifferent(cell_colors, sens) ==
    IF Len(cell_colors) < 2 THEN << >>
    ELSE LET avg_distances == AvgDistances(cell_colors)
         IN  IF BelowThreshold(MaxSeq(avg_distances), sens) THEN << >>
             ELSE LET outliers_z == ZScoreOutliers(avg_distances)
                  IN  IF Len(outliers_z) > 0 THEN outliers_z
                      ELSE AfterZScore(cell_colors, sens)

---------------------------------------------------------------------------
\* images: img_array is a sequence of rows, a row a sequence of pixels
\* <<r, g, b>> with channels in 0..255; numpy's img[y][x] is img[y + 1][x + 1]

None == << >>
Some(x) == <<x>>

Height(img) == Len(img)
Width(img) == Len(img[1])

\* three times the grey value np.mean(img_array, axis=2) of a pixel
Gray3(p) == p[1] + p[2] + p[3]

\* sum of Gray3 over the rows y1..y2-1 and columns x1..x2-1
GraySum(img, y1, y2, x1, x2) ==
    SumFn([y \in y1..(y2 - 1) |->
             SumFn([x \in x1..(x2 - 1) |-> Gray3(img[y + 1][x + 1])], x1, x2 - 1)],
          y1, y2 - 1)

\* np.mean(region.reshape(-1, 3), axis=0) of img[y1:y2, x1:x2], non-empty
ChannelSum(img, k, y1, y2, x1, x2) ==
    SumFn([y \in y1..(y2 - 1) |->
             SumFn([x \in x1..(x2 - 1) |-> img[y + 1][x + 1][k]], x1, x2 - 1)],
          y1, y2 - 1)

RegionMean(img, y1, y2, x1, x2) ==
    LET count == (y2 - y1) * (x2 - x1)
    IN  <<(ChannelSum(img, 1, y1, y2, x1, x2) * FP) \div count,
          (ChannelSum(img, 2, y1, y2, x1, x2) * FP) \div count,
          (ChannelSum(img, 3, y1, y2, x1, x2) * FP) \div count>>

---------------------------------------------------------------------------
\* ColorAnalyzer._find_gaps

\* faulty variant of FarEnough: every gap midpoint is accepted
FarEnoughAlways(gap_mid, last, start, end) == TRUE

\* line 469: gap_mid - splits[-1] > (end - start) * 0.05
FarEnough(gap_mid, last, start, end) == 20 * (gap_mid - last) > end - start

\* the loop over enumerate(gaps); gaps is a sequence of booleans, i is 0-based
RECURSIVE FindGapsLoop(_, _, _, _, _, _, _)
FindGapsLoop(gaps, start, end, i, splits, in_gap, gap_start) ==
    IF i >= Len(gaps) THEN splits
    ELSE IF gaps[i + 1] /\ ~in_gap
         THEN FindGapsLoop(gaps, start, end, i + 1, splits, TRUE, i)
    ELSE IF ~gaps[i + 1] /\ in_gap
         THEN LET gap_mid == start + ((gap_start + i) \div 2)
              IN  FindGapsLoop(gaps, start, end, i + 1,
                     IF FarEnough(gap_mid, splits[Len(splits)], start, end)
                     THEN Append(splits, gap_mid) ELSE splits,
                     FALSE, gap_start)
    ELSE FindGapsLoop(gaps, start, end, i + 1, splits, in_gap, gap_start)

FindGaps(gaps, start, end) ==
    Append(FindGapsLoop(gaps, start, end, 0, <<start>>, FALSE, 0), end)

---------------------------------------------------------------------------
\* ColorAnalyzer._score_grid and _fallback_grid

\* faulty variant of ScoreGreater: score >= best_score
ScoreGreaterEq(a, b) == a[1] * b[2] >= b[1] * a[2]

\* a score is a fraction <<numerator, denominator>>
ScoreZero == <<0, 1>>
ScoreGreater(a, b) == a[1] * b[2] > b[1] * a[2]

\* the sampled region of one cell: margins of 15 %, clamped to the image
ScoreRegion(img, cell) ==
    LET x == cell[1]  y == cell[2]  w == cell[3]  h == cell[4]
        margin_x == (w * 15) \div 100
        margin_y == (h * 15) \div 100
    IN  [y1 |-> Max(0, y + margin_y), y2 |-> Min(Height(img), y + h - margin_y),
         x1 |-> Max(0, x + margin_x), x2 |-> Min(Width(img), x + w - margin_x)]

ScoreGrid(img, cells, rows, cols) ==
    LET regions == Array([i \in 1..Len(cells) |-> ScoreRegion(img, cells[i])])
        empty(r) == r.y2 <= r.y1 \/ r.x2 <= r.x1
    IN  IF \E i \in 1..Len(cells) : empty(regions[i]) THEN ScoreZero
        ELSE
        LET colors == Array([i \in 1..Len(cells) |->
                         RegionMean(img, regions[i].y1, regions[i].y2,
                                    regions[i].x1, regions[i].x2)])
            n == Len(cells)
        IN  \* np.mean(avg_color) > 200: too bright, probably background
            IF \E i \in 1..n : colors[i][1] + colors[i][2] + colors[i][3] > 3 * 200 * FP
            THEN ScoreZero
            ELSE IF n # rows * cols THEN ScoreZero
            ELSE
            LET color_std3 == SumFn([k \in 1..3 |->
                                       StdSeq([i \in 1..n |-> colors[i][k]])], 1, 3)
                median_color == MedianColor(colors)
                similar_count == Cardinality({i \in 1..n :
                                     Dist(colors[i], median_color) < 80 * FP})
            IN  \* similarity = similar_count / n
                IF 10 * similar_count < 7 * n THEN ScoreZero
                \* avg_std < 5: score = similarity * 0.6
                ELSE IF color_std3 < 3 * 5 * FP THEN <<6 * similar_count, 10 * n>>
                ELSE <<similar_count, n>>

\* cells of the uniform rows x cols partition, row-major
UniformCells(rows, cols, ch, cw) ==
    [k \in 1..(rows * cols) |->
        <<((k - 1) % cols) * cw, ((k - 1) \div cols) * ch, cw, ch>>]

\* faulty variant of FallbackLoop: cells of exactly 20 pixels are rejected
RECURSIVE FallbackLoopOver20(_, _, _, _)
FallbackLoopOver20(img, k, best, best_score) ==
    IF k >= 36 THEN best
    ELSE LET rows == 2 + (k \div 6)
             cols == 2 + (k % 6)
             ch == Height(img) \div rows
             cw == Width(img) \div cols
         IN  IF rows * cols > 50 \/ ch <= 20 \/ cw <= 20
             THEN FallbackLoopOver20(img, k + 1, best, best_score)
             ELSE LET cells == UniformCells(rows, cols, ch, cw)
                      score == ScoreGrid(img, cells, rows, cols)
                  IN  IF ScoreGreater(score, best_score)
                      THEN FallbackLoopOver20(img, k + 1,
                              Some([rows |-> rows, cols |-> cols, cells |-> cells]),
                              score)
                      ELSE FallbackLoopOver20(img, k + 1, best, best_score)

\* the loops over rows, cols in range(2, 8); k counts the candidates, row-major
RECURSIVE FallbackLoop(_, _, _, _)
FallbackLoop(img, k, best, best_score) ==
    IF k >= 36 THEN best
    ELSE LET rows == 2 + (k \div 6)
             cols == 2 + (k % 6)
             ch == Height(img) \div rows
             cw == Width(img) \div cols
         IN  IF rows * cols > 50 \/ ch < 20 \/ cw < 20
             THEN FallbackLoop(img, k + 1, best, best_score)
             ELSE LET cells == UniformCells(rows, cols, ch, cw)
                      score == ScoreGrid(img, cells, rows, cols)
                  IN  IF ScoreGreater(score, best_score)
                      THEN FallbackLoop(img, k + 1,
                              Some([rows |-> rows, cols |-> cols, cells |-> cells]),
                              score)
                      ELSE FallbackLoop(img, k + 1, best, best_score)

FallbackGrid(img) == FallbackLoop(img, 0, None, ScoreZero)

---------------------------------------------------------------------------
\* ColorAnalyzer._detect_grid_simple

\* the four corner patches gray[0:5, 0:5], gray[0:5, -5:], gray[-5:, 0:5],
\* gray[-5:, -5:], as sums of Gray3
CornerSums(img) ==
    LET H == Height(img)  W == Width(img)
        yb == Min(5, H)  yt == Max(H - 5, 0)
        xb == Min(5, W)  xt == Max(W - 5, 0)
    IN  <<GraySum(img, 0, yb, 0, xb), GraySum(img, 0, yb, xt, W),
          GraySum(img, yt, H, 0, xb), GraySum(img, yt, H, xt, W)>>

\* foreground = gray < np.median(bg_values) - 20, every grey scaled by 6 n,
\* n the pixel count of a corner patch: the bound on 2 n Gray3(pixel)
ForegroundBound(img) ==
    LET n == Min(5, Height(img)) * Min(5, Width(img))
        s == SortSeq(CornerSums(img), LAMBDA a, b : a < b)
    IN  [scale |-> 2 * n, bound |-> s[2] + s[3] - 120 * n]

\* np.argmax(mask): 0-based index of the first True of a mask that has one
FirstTrue(mask) ==
    (CHOOSE i \in 1..Len(mask) : mask[i] /\ \A j \in 1..(i - 1) : ~mask[j]) - 1

\* len(mask) - np.argmax(mask[::-1]) - 1: 0-based index of the last True
LastTrue(mask) ==
    (CHOOSE i \in 1..Len(mask) : mask[i] /\ \A j \in (i + 1)..Len(mask) : ~mask[j]) - 1

\* faulty variant of SplitCells: the last row of cells is not generated
SplitCellsShort(h_splits, v_splits) ==
    LET rows == Len(h_splits) - 1
        cols == Len(v_splits) - 1
    IN  Array([k \in 1..((rows - 1) * cols) |->
           LET i == (k - 1) \div cols
               j == (k - 1) % cols
           IN  <<v_splits[j + 1], h_splits[i + 1],
                 v_splits[j + 2] - v_splits[j + 1], h_splits[i + 2] - h_splits[i + 1]>>])

\* cells as the cross product of the splits, row-major
SplitCells(h_splits, v_splits) ==
    LET rows == Len(h_splits) - 1
        cols == Len(v_splits) - 1
    IN  Array([k \in 1..(rows * cols) |->
           LET i == (k - 1) \div cols
               j == (k - 1) % cols
           IN  <<v_splits[j + 1], h_splits[i + 1],
                 v_splits[j + 2] - v_splits[j + 1], h_splits[i + 2] - h_splits[i + 1]>>])

\* the result of the gap strategy, given the splits
GapGrid(h_splits, v_splits) ==
    [rows |-> Len(h_splits) - 1, cols |-> Len(v_splits) - 1,
     cells |-> SplitCells(h_splits, v_splits)]

\* returns [grid |-> None or Some(rows, cols, cells), by |-> the strategy
\* whose return statement produced it]
DetectGridSimple(img) ==
    LET H == Height(img)  W == Width(img)
        fb == ForegroundBound(img)
        \* foreground[y + 1][x + 1] is numpy's foreground[y, x]
        foreground == Array([y \in 1..H |-> Array([x \in 1..W |->
                          fb.scale * Gray3(img[y][x]) < fb.bound])])
        rows_with_fg == Array([y \in 1..H |-> \E x \in 1..W : foreground[y][x]])
        cols_with_fg == Array([x \in 1..W |-> \E y \in 1..H : foreground[y][x]])
    IN  IF (\A y \in 1..H : ~rows_with_fg[y]) \/ (\A x \in 1..W : ~cols_with_fg[x])
        THEN [grid |-> FallbackGrid(img), by |-> "fallback"]
        ELSE
        LET row_start == FirstTrue(rows_with_fg)
            row_end   == LastTrue(rows_with_fg) + 1
            col_start == FirstTrue(cols_with_fg)
            col_end   == LastTrue(cols_with_fg) + 1
            \* density < 0.3 along each row and column of the bounding box
            row_gaps == Array([i \in 1..(row_end - row_start) |->
                           10 * Cardinality({x \in (col_start + 1)..col_end :
                                               foreground[row_start + i][x]})
                             < 3 * (col_end - col_start)])
            col_gaps == Array([j \in 1..(col_end - col_start) |->
                           10 * Cardinality({y \in (row_start + 1)..row_end :
                                               foreground[y][col_start + j]})
                             < 3 * (row_end - row_start)])
            h_splits == FindGaps(row_gaps, row_start, row_end)
            v_splits == FindGaps(col_gaps, col_start, col_end)
        IN  IF Len(h_splits) < 2 \/ Len(v_splits) < 2
            THEN [grid |-> FallbackGrid(img), by |-> "fallback"]
            ELSE [grid |-> Some(GapGrid(h_splits, v_splits)), by |-> "gap"]

---------------------------------------------------------------------------
\* ColorAnalyzer.analyze, the steps between its calls

\* faulty variant of SampleCell: a cell smaller than 5x5 is given the neutral
\* gray without looking at the image
SampleCellGraySmall(img, cell) ==
    LET x == cell[1]  y == cell[2]  w == cell[3]  h == cell[4]
        mx == (w * 2) \div 10
        my == (h * 2) \div 10
        cx == x + (w \div 2)
        cy == y + (h \div 2)
        sample_w == Max(5, w - 2 * mx)
        sample_h == Max(5, h - 2 * my)
        y1 == Max(0, cy - (sample_h \div 2))
        y2 == Min(Height(img), cy + (sample_h \div 2))
        x1 == Max(0, cx - (sample_w \div 2))
        x2 == Min(Width(img), cx + (sample_w \div 2))
    IN  IF y2 > y1 /\ x2 > x1 /\ ~(w < 5 /\ h < 5)
        THEN RegionMean(img, y1, y2, x1, x2)
        ELSE <<128 * FP, 128 * FP, 128 * FP>>

\* lines 339-353: the colour sampled for one cell
SampleCell(img, cell) ==
    LET x == cell[1]  y == cell[2]  w == cell[3]  h == cell[4]
        mx == (w * 2) \div 10
        my == (h * 2) \div 10
        cx == x + (w \div 2)
        cy == y + (h \div 2)
        sample_w == Max(5, w - 2 * mx)
        sample_h == Max(5, h - 2 * my)
        y1 == Max(0, cy - (sample_h \div 2))
        y2 == Min(Height(img), cy + (sample_h \div 2))
        x1 == Max(0, cx - (sample_w \div 2))
        x2 == Min(Width(img), cx + (sample_w \div 2))
    IN  IF y2 > y1 /\ x2 > x1
        THEN RegionMean(img, y1, y2, x1, x2)
        ELSE <<128 * FP, 128 * FP, 128 * FP>>

SampleColors(img, cells) ==
    [i \in 1..Len(cells) |-> SampleCell(img, cells[i])]

\* faulty variant of Entry: row and column exchanged
EntrySwapped(idx, c, cols) ==
    [row |-> (idx % cols) + 1, col |-> (idx \div cols) + 1,
     color |-> <<c[1] \div FP, c[2] \div FP, c[3] \div FP>>]

\* one entry {'row', 'col', 'color'}; the colour is printed with int()
Entry(idx, c, cols) ==
    [row |-> (idx \div cols) + 1, col |-> (idx % cols) + 1,
     color |-> <<c[1] \div FP, c[2] \div FP, c[3] \div FP>>]

\* lines 357-366
Results(different_cells, colors, cols) ==
    [i \in 1..Len(different_cells) |->
        Entry(different_cells[i], colors[different_cells[i] + 1], cols)]

\* lines 371-380
DebugColors(colors, cols) ==
    [i \in 1..Len(colors) |-> Entry(i - 1, colors[i], cols)]

---------------------------------------------------------------------------
\* pixmaps handed to analyze: a background colour and rectangles painted
\* over it, the later ones on top

White == <<255, 255, 255>>
ColA == <<200, 50, 50>>
ColB == <<50, 200, 50>>
ColA2 == <<196, 50, 50>>
ColA3 == <<190, 50, 50>>
Dark == <<60, 60, 60>>

PixelAt(pm, x, y) ==
    LET hits == {i \in 1..Len(pm.rects) :
                   /\ pm.rects[i].x <= x /\ x < pm.rects[i].x + pm.rects[i].w
                   /\ pm.rects[i].y <= y /\ y < pm.rects[i].y + pm.rects[i].h}
    IN  IF hits = {} THEN pm.bg
        ELSE pm.rects[CHOOSE i \in hits : \A j \in hits : j <= i].color

\* lines 324-328: the pixmap saved as PNG and read back as an RGB array
Decode(pm) ==
    [y \in 1..pm.height |-> [x \in 1..pm.width |-> PixelAt(pm, x - 1, y - 1)]]

\* rows x cols cells of the given colours on white: cell side `cell`, gutter
\* `gutter` between cells, margin `margin` around them
GridPic(rows, cols, colors, cell, gutter, margin) ==
    [width  |-> 2 * margin + cols * cell + (cols - 1) * gutter,
     height |-> 2 * margin + rows * cell + (rows - 1) * gutter,
     bg |-> White,
     rects |-> [k \in 1..(rows * cols) |->
                  [x |-> margin + ((k - 1) % cols) * (cell + gutter),
                   y |-> margin + ((k - 1) \div cols) * (cell + gutter),
                   w |-> cell, h |-> cell, color |-> colors[k]]]]

\* pw x ph patches of the given colours tiling the whole image
PatchPic(rows, cols, colors, pw, ph) ==
    [width |-> cols * pw, height |-> rows * ph, bg |-> White,
     rects |-> [k \in 1..(rows * cols) |->
                  [x |-> ((k - 1) % cols) * pw, y |-> ((k - 1) \div cols) * ph,
                   w |-> pw, h |-> ph, color |-> colors[k]]]]

SolidPic(w, h, color) == [width |-> w, height |-> h, bg |-> color, rects |-> << >>]

\* an image whose pixel (x, y) is dark where rmask[y] and cmask[x], white elsewhere
StripePic(rmask, cmask) ==
    [width |-> Len(cmask), height |-> Len(rmask), bg |-> White,
     rects |-> [k \in 1..(Len(rmask) * Len(cmask)) |->
                  [x |-> (k - 1) % Len(cmask), y |-> (k - 1) \div Len(cmask),
                   w |-> 1, h |-> 1,
                   color |-> IF rmask[((k - 1) \div Len(cmask)) + 1]
                                /\ cmask[((k - 1) % Len(cmask)) + 1]
                             THEN Dark ELSE White]]]

\* the 3x3 grid of section 8: colour a everywhere, colour b at index k (0-based);
\* k = 9 leaves the grid uniform
Grid3x3(a, b, k) ==
    GridPic(3, 3, [i \in 1..9 |-> IF i = k + 1 THEN b ELSE a], 6, 2, 3)

Grid3x3Pics == {Grid3x3(ColA, ColB, k) : k \in 0..9}

Grid2x2Pics ==
    {GridPic(2, 2, <<a, b, c, d>>, 6, 2, 3) :
        a \in {ColA}, b \in {ColA, ColA2, ColA3, ColB},
        c \in {ColA, ColA2, ColA3, ColB}, d \in {ColA, ColA2, ColA3, ColB}}

OtherGridPics ==
    {GridPic(1, 1, <<ColA>>, 8, 2, 3),
     GridPic(1, 3, <<ColA, ColB, ColA>>, 6, 2, 3),
     GridPic(3, 2, <<ColA, ColA, ColA2, ColA, ColA, ColB>>, 5, 1, 1),
     GridPic(2, 3, <<ColA, ColA2, ColA, ColA, ColA, ColA>>, 3, 1, 0),
     GridPic(2, 3, <<ColA, ColB, ColA, ColA, ColA, ColB>>, 6, 2, 3),
     \* a block with a single dark pixel above its corner
     [width |-> 8, height |-> 4, bg |-> White,
      rects |-> <<[x |-> 0, y |-> 0, w |-> 1, h |-> 1, color |-> Dark],
                  [x |-> 0, y |-> 1, w |-> 8, h |-> 3, color |-> Dark]>>],
     \* the same with an empty row between the pixel and the block
     [width |-> 8, height |-> 6, bg |-> White,
      rects |-> <<[x |-> 0, y |-> 0, w |-> 1, h |-> 1, color |-> Dark],
                  [x |-> 0, y |-> 2, w |-> 8, h |-> 4, color |-> Dark]>>],
     \* two bars crossing: sparse rows and columns around a dense centre
     [width |-> 9, height |-> 9, bg |-> White,
      rects |-> <<[x |-> 4, y |-> 0, w |-> 1, h |-> 9, color |-> Dark],
                  [x |-> 0, y |-> 4, w |-> 9, h |-> 1, color |-> ColA]>>],
     \* a wide block, two empty columns, and a last column one pixel wide
     [width |-> 60, height |-> 6, bg |-> White,
      rects |-> <<[x |-> 0, y |-> 0, w |-> 57, h |-> 6, color |-> Dark],
                  [x |-> 59, y |-> 0, w |-> 1, h |-> 6, color |-> Dark]>>]}

RECURSIVE Masks(_)
Masks(n) == IF n = 0 THEN {<< >>}
            ELSE {Append(m, b) : m \in Masks(n - 1), b \in BOOLEAN}

StripeRows == {<<TRUE, TRUE, TRUE, TRUE>>, <<TRUE, FALSE, TRUE>>,
               <<FALSE, TRUE, FALSE, FALSE, FALSE, FALSE, TRUE, TRUE>>}

StripePics ==
    {StripePic(r, m) : r \in StripeRows, m \in UNION {Masks(n) : n \in 1..MaxStripe}}

SolidPics ==
    {SolidPic(wh[1], wh[2], c) :
        wh \in {<<8, 8>>, <<39, 40>>, <<40, 40>>, <<44, 61>>},
        c \in {White, <<100, 100, 100>>, <<60, 120, 180>>}}

PatchPics ==
    {PatchPic(2, 2, <<<<120, 100, 100>>, <<100, 120, 100>>,
                      <<100, 100, 120>>, <<110, 110, 100>>>>, 20, 20),
     PatchPic(2, 3, <<<<120, 100, 100>>, <<120, 100, 100>>, <<120, 100, 100>>,
                      <<120, 100, 100>>, <<100, 100, 125>>, <<120, 100, 100>>>>, 21, 23),
     \* 2x4 patches of 20x20 pixels, every patch unlike its neighbours
     PatchPic(2, 4, <<<<120, 100, 100>>, <<100, 120, 100>>,
                      <<100, 100, 120>>, <<90, 110, 120>>,
                      <<100, 120, 100>>, <<120, 100, 100>>,
                      <<90, 110, 120>>, <<100, 100, 120>>>>, 20, 20),
     \* 2x4 patches of 20x20 pixels, two colours in a checkerboard
     PatchPic(2, 4, <<<<120, 100, 100>>, <<100, 120, 100>>,
                      <<120, 100, 100>>, <<100, 120, 100>>,
                      <<100, 120, 100>>, <<120, 100, 100>>,
                      <<100, 120, 100>>, <<120, 100, 100>>>>, 20, 20),
     \* 2x7 patches of 20x20 pixels, two colours in a checkerboard
     PatchPic(2, 7, [k \in 1..14 |->
                       IF (((k - 1) \div 7) + ((k - 1) % 7)) % 2 = 0
                       THEN <<120, 100, 100>> ELSE <<100, 120, 100>>], 20, 20)}

Pixmaps == Grid3x3Pics \cup Grid2x2Pics \cup OtherGridPics \cup StripePics
             \cup SolidPics \cup PatchPics

\* sensitivities handed to analyze, in tenths (the slider's range is 5..30)
SliderValues == {5, 15, 30}

---------------------------------------------------------------------------
\* calls of ColorAnalyzer.analyze; each call has its own local variables

Calls == {1, 2}

VARIABLES pc, pixmap, sensitivity, debug, img_array, grid_info, detected_by,
          cell_colors, different_cells, result, error

call_vars == <<pc, pixmap, sensitivity, debug, img_array, grid_info, detected_by,
               cell_colors, different_cells, result, error>>

NoPixmap == SolidPic(0, 0, White)

\* analyze is called: lines 318-328
Analyze(c, pm, s, d) ==
    /\ pc[c] = "idle"
    /\ pc' = [pc EXCEPT ![c] = "detect"]
    /\ pixmap' = [pixmap EXCEPT ![c] = pm]
    /\ sensitivity' = [sensitivity EXCEPT ![c] = s]
    /\ debug' = [debug EXCEPT ![c] = d]
    /\ img_array' = [img_array EXCEPT ![c] = Decode(pm)]
    /\ UNCHANGED <<grid_info, detected_by, cell_colors, different_cells, result, error>>

\* lines 331-335
DetectGrid(c) ==
    /\ pc[c] = "detect"
    /\ LET det == DetectGridSimple(img_array[c])
       IN  /\ grid_info' = [grid_info EXCEPT ![c] = det.grid]
           /\ detected_by' = [detected_by EXCEPT ![c] = det.by]
           /\ IF det.grid = None
              THEN /\ error' = [error EXCEPT ![c] = Some("no valid grid")]
                   /\ pc' = [pc EXCEPT ![c] = "done"]
              ELSE /\ error' = error
                   /\ pc' = [pc EXCEPT ![c] = "sample"]
    /\ UNCHANGED <<pixmap, sensitivity, debug, img_array, cell_colors,
                   different_cells, result>>

\* lines 338-353
Sample(c) ==
    /\ pc[c] = "sample"
    /\ cell_colors' = [cell_colors EXCEPT ![c] =
                          SampleColors(img_array[c], grid_info[c][1].cells)]
    /\ pc' = [pc EXCEPT ![c] = "classify"]
    /\ UNCHANGED <<pixmap, sensitivity, debug, img_array, grid_info, detected_by,
                   different_cells, result, error>>

\* faulty variant of Classify: the sensitivity is shared between the callers
\* (the first caller's value is the one used)
ClassifyShared(c) ==
    /\ pc[c] = "classify"
    /\ different_cells' = [different_cells EXCEPT ![c] =
                              FindDifferent(cell_colors[c], sensitivity[1])]
    /\ pc' = [pc EXCEPT ![c] = "report"]
    /\ UNCHANGED <<pixmap, sensitivity, debug, img_array, grid_info, detected_by,
                   cell_colors, result, error>>

\* line 356
Classify(c) ==
    /\ pc[c] = "classify"
    /\ different_cells' = [different_cells EXCEPT ![c] =
                              FindDifferent(cell_colors[c], sensitivity[c])]
    /\ pc' = [pc EXCEPT ![c] = "report"]
    /\ UNCHANGED <<pixmap, sensitivity, debug, img_array, grid_info, detected_by,
                   cell_colors, result, error>>

\* lines 357-382
Report(c) ==
    /\ pc[c] = "report"
    /\ LET g == grid_info[c][1]
       IN  result' = [result EXCEPT ![c] =
              Some([grid_size |-> <<g.rows, g.cols>>,
                    results |-> Results(different_cells[c], cell_colors[c], g.cols),
                    debug_colors |-> IF debug[c]
                                     THEN Some(DebugColors(cell_colors[c], g.cols))
                                     ELSE None])]
    /\ pc' = [pc EXCEPT ![c] = "done"]
    /\ UNCHANGED <<pixmap, sensitivity, debug, img_array, grid_info, detected_by,
                   cell_colors, different_cells, error>>

\* the caller has taken (result, error); the call's locals are gone
Return(c) ==
    /\ pc[c] = "done"
    /\ pc' = [pc EXCEPT ![c] = "idle"]
    /\ pixmap' = [pixmap EXCEPT ![c] = NoPixmap]
    /\ sensitivity' = [sensitivity EXCEPT ![c] = 15]
    /\ debug' = [debug EXCEPT ![c] = FALSE]
    /\ img_array' = [img_array EXCEPT ![c] = << >>]
    /\ grid_info' = [grid_info EXCEPT ![c] = None]
    /\ detected_by' = [detected_by EXCEPT ![c] = "none"]
    /\ cell_colors' = [cell_colors EXCEPT ![c] = << >>]
    /\ different_cells' = [different_cells EXCEPT ![c] = << >>]
    /\ result' = [result EXCEPT ![c] = None]
    /\ error' = [error EXCEPT ![c] = None]

---------------------------------------------------------------------------
\* SpecFD: _find_different applied to colour lists drawn from a palette

VARIABLES fd_pc, fd_colors, fd_sens, fd_out, fd_prev

fd_vars == <<fd_pc, fd_colors, fd_sens, fd_out, fd_prev>>

\* MainWindow: current_pixmap, sensitivity (ui_sensitivity, in tenths), the
\* debug check box, the QTimer.singleShot(100, self.analyze) timers not yet
\* fired, the calls of MainWindow.analyze that are inside processEvents, the
\* text of result_label, and the number of user events so far
VARIABLES current_pixmap, ui_sensitivity, debug_cb, pending_timers, analyzing,
          result_label, user_events

ui_vars == <<current_pixmap, ui_sensitivity, debug_cb, pending_timers, analyzing,
             result_label, user_events>>

\* a text of result_label
LabelText(kind, grid_size, lines, more) ==
    [kind |-> kind, grid_size |-> grid_size, lines |-> lines, more |-> more]

\* result_label before any analysis
LabelHidden == LabelText("hidden", <<0, 0>>, << >>, 0)

\* a colour with integer channels, in fixed point
RGB(r, g, b) == <<r * FP, g * FP, b * FP>>

Palette == {RGB(100, 100, 100), RGB(103, 100, 100), RGB(100, 104, 100),
            RGB(112, 100, 100), RGB(100, 100, 130)}

Sensitivities == {5, 10, 15, 30}

RECURSIVE ColorLists(_)
ColorLists(n) ==
    IF n = 0 THEN {<< >>}
    ELSE {Append(s, c) : s \in ColorLists(n - 1), c \in Palette}

FDInputs == UNION {ColorLists(n) : n \in 2..MaxN}

FDInit ==
    /\ fd_pc = "input"
    /\ fd_colors \in FDInputs
    /\ fd_sens \in Sensitivities
    /\ fd_out = << >>
    /\ fd_prev = [sens |-> fd_sens, out |-> << >>]
    /\ pc = [c \in Calls |-> "idle"]
    /\ pixmap = [c \in Calls |-> NoPixmap]
    /\ sensitivity = [c \in Calls |-> 15]
    /\ debug = [c \in Calls |-> FALSE]
    /\ img_array = [c \in Calls |-> << >>]
    /\ grid_info = [c \in Calls |-> None]
    /\ detected_by = [c \in Calls |-> "none"]
    /\ cell_colors = [c \in Calls |-> << >>]
    /\ different_cells = [c \in Calls |-> << >>]
    /\ result = [c \in Calls |-> None]
    /\ error = [c \in Calls |-> None]
    /\ current_pixmap = NoPixmap
    /\ ui_sensitivity = 15
    /\ debug_cb = FALSE
    /\ pending_timers = 0
    /\ analyzing = 0
    /\ result_label = LabelHidden
    /\ user_events = 0

\* a first call of _find_different
FDCall ==
    /\ fd_pc = "input"
    /\ fd_pc' = "called"
    /\ fd_out' = FindDifferent(fd_colors, fd_sens)
    /\ UNCHANGED <<fd_colors, fd_sens, fd_prev, call_vars, ui_vars>>

\* a second call on the same colours with the sensitivity raised
FDRaise ==
    /\ fd_pc = "called"
    /\ \E s \in Sensitivities :
          /\ s > fd_sens
          /\ fd_sens' = s
          /\ fd_prev' = [sens |-> fd_sens, out |-> fd_out]
          /\ fd_out' = FindDifferent(fd_colors, s)
    /\ fd_pc' = "raised"
    /\ UNCHANGED <<fd_colors, call_vars, ui_vars>>

\* sensitivities outside the slider's range: -1.0, 0, 0.2 and 5.0
AnySensitivities == {-10, 0, 2, 50}

\* a call of _find_different with a sensitivity that no slider produced
FDCallAny ==
    /\ fd_pc = "input"
    /\ \E s \in AnySensitivities :
          /\ fd_sens' = s
          /\ IF FindDifferentRaises(fd_colors, s)
             THEN fd_pc' = "error" /\ fd_out' = << >>
             ELSE fd_pc' = "returned" /\ fd_out' = FindDifferent(fd_colors, s)
    /\ UNCHANGED <<fd_colors, fd_prev, call_vars, ui_vars>>

FDNext == FDCall \/ FDRaise \/ FDCallAny

---------------------------------------------------------------------------
\* specifications

vars == <<call_vars, fd_vars, ui_vars>>

\* no call of analyze is running and no colour list is under test
Init ==
    /\ pc = [c \in Calls |-> "idle"]
    /\ pixmap = [c \in Calls |-> NoPixmap]
    /\ sensitivity = [c \in Calls |-> 15]
    /\ debug = [c \in Calls |-> FALSE]
    /\ img_array = [c \in Calls |-> << >>]
    /\ grid_info = [c \in Calls |-> None]
    /\ detected_by = [c \in Calls |-> "none"]
    /\ cell_colors = [c \in Calls |-> << >>]
    /\ different_cells = [c \in Calls |-> << >>]
    /\ result = [c \in Calls |-> None]
    /\ error = [c \in Calls |-> None]
    /\ fd_pc = "idle"
    /\ fd_colors = << >>
    /\ fd_sens = 15
    /\ fd_out = << >>
    /\ fd_prev = [sens |-> 15, out |-> << >>]
    /\ current_pixmap = NoPixmap
    /\ ui_sensitivity = 15
    /\ debug_cb = FALSE
    /\ pending_timers = 0
    /\ analyzing = 0
    /\ result_label = LabelHidden
    /\ user_events = 0

\* one caller at a time
Next ==
    \/ \E pm \in Pixmaps, s \in SliderValues, d \in BOOLEAN :
          Analyze(1, pm, s, d) /\ UNCHANGED <<fd_vars, ui_vars>>
    \/ DetectGrid(1) /\ UNCHANGED <<fd_vars, ui_vars>>
    \/ Sample(1) /\ UNCHANGED <<fd_vars, ui_vars>>
    \/ Classify(1) /\ UNCHANGED <<fd_vars, ui_vars>>
    \/ Report(1) /\ UNCHANGED <<fd_vars, ui_vars>>
    \/ Return(1) /\ UNCHANGED <<fd_vars, ui_vars>>

Spec == Init /\ [][Next]_vars

SpecFD == FDInit /\ [][FDNext]_vars

\* two callers, their calls interleaved step by step
ConcPixmaps ==
    {StripePic(<<TRUE, TRUE, TRUE, TRUE>>, <<TRUE, FALSE, TRUE, TRUE, FALSE>>),
     GridPic(2, 2, <<ColA, ColA, ColA2, ColB>>, 6, 2, 3),
     GridPic(2, 2, <<ColA, ColA3, ColA, ColA>>, 6, 2, 3),
     SolidPic(8, 8, Dark)}

ConcSliderValues == {5, 30}

NextConc ==
    \E c \in Calls :
        \/ \E pm \in ConcPixmaps, s \in ConcSliderValues, d \in BOOLEAN :
              Analyze(c, pm, s, d) /\ UNCHANGED <<fd_vars, ui_vars>>
        \/ DetectGrid(c) /\ UNCHANGED <<fd_vars, ui_vars>>
        \/ Sample(c) /\ UNCHANGED <<fd_vars, ui_vars>>
        \/ Classify(c) /\ UNCHANGED <<fd_vars, ui_vars>>
        \/ Report(c) /\ UNCHANGED <<fd_vars, ui_vars>>
        \/ Return(c) /\ UNCHANGED <<fd_vars, ui_vars>>

SpecConc == Init /\ [][NextConc]_vars

---------------------------------------------------------------------------
\* MainWindow: load_image, on_sensitivity_changed, the debug check box, the
\* single-shot timers and MainWindow.analyze

\* Most user events in one run of the window.
MaxUserEvents == 3
\* Most calls of MainWindow.analyze nested through processEvents.
MaxNesting == 2

\* images the user loads
UIPixmaps == ConcPixmaps

\* ColorAnalyzer.analyze as one call: (result, error)
AnalyzeOutcome(pm, sens, dbg) ==
    LET img == Decode(pm)
        det == DetectGridSimple(img)
    IN  IF det.grid = None
        THEN [result |-> None, error |-> Some("no valid grid")]
        ELSE LET g == det.grid[1]
                 colors == SampleColors(img, g.cells)
                 different == FindDifferent(colors, sens)
             IN  [result |-> Some([grid_size |-> <<g.rows, g.cols>>,
                                   results |-> Results(different, colors, g.cols),
                                   debug_colors |-> IF dbg
                                                    THEN Some(DebugColors(colors, g.cols))
                                                    ELSE None]),
                  error |-> None]

\* lines 919-937: the text MainWindow.analyze puts into result_label
ResultText(outcome, debug_mode) ==
    IF outcome.error # None THEN LabelText("error", <<0, 0>>, << >>, 0)
    ELSE LET res == outcome.result[1]
         IN  IF debug_mode /\ res.debug_colors # None
             THEN LET dc == res.debug_colors[1]
                      marked(info) == \E i \in 1..Len(res.results) :
                                         /\ res.results[i].row = info.row
                                         /\ res.results[i].col = info.col
                  IN  LabelText("debug", res.grid_size,
                                [i \in 1..Min(20, Len(dc)) |->
                                    [marker |-> marked(dc[i]), row |-> dc[i].row,
                                     col |-> dc[i].col, color |-> dc[i].color]],
                                Max(0, Len(dc) - 20))
             ELSE IF Len(res.results) > 0
             THEN LabelText("found", res.grid_size,
                            [i \in 1..Len(res.results) |->
                                [marker |-> TRUE, row |-> res.results[i].row,
                                 col |-> res.results[i].col,
                                 color |-> res.results[i].color]], 0)
             ELSE LabelText("same", res.grid_size, << >>, 0)

\* lines 912-914: the text shown while the analysis runs
LabelBusy == LabelText("busy", <<0, 0>>, << >>, 0)

\* lines 881-895: load_image
LoadImage(pm) ==
    /\ user_events < MaxUserEvents
    /\ user_events' = user_events + 1
    /\ current_pixmap' = pm
    /\ pending_timers' = pending_timers + 1
    /\ UNCHANGED <<ui_sensitivity, debug_cb, analyzing, result_label>>

\* faulty variant of SensitivityChanged: no analysis is scheduled
SensitivityChangedNoTimer(value) ==
    /\ user_events < MaxUserEvents
    /\ value # ui_sensitivity
    /\ user_events' = user_events + 1
    /\ ui_sensitivity' = value
    /\ UNCHANGED <<current_pixmap, pending_timers, debug_cb, analyzing, result_label>>

\* lines 897-905: on_sensitivity_changed, the slider has moved to value
SensitivityChanged(value) ==
    /\ user_events < MaxUserEvents
    /\ value # ui_sensitivity
    /\ user_events' = user_events + 1
    /\ ui_sensitivity' = value
    /\ pending_timers' = IF current_pixmap # NoPixmap
                         THEN pending_timers + 1 ELSE pending_timers
    /\ UNCHANGED <<current_pixmap, debug_cb, analyzing, result_label>>

\* lines 907-914: MainWindow.analyze up to and into processEvents
EnterAnalyze ==
    IF current_pixmap = NoPixmap
    THEN UNCHANGED <<analyzing, result_label>>
    ELSE /\ analyzing' = analyzing + 1
         /\ result_label' = LabelBusy

\* line 742: the debug check box changes state and calls analyze
DebugToggled ==
    /\ user_events < MaxUserEvents
    /\ analyzing < MaxNesting
    /\ user_events' = user_events + 1
    /\ debug_cb' = ~debug_cb
    /\ EnterAnalyze
    /\ UNCHANGED <<current_pixmap, ui_sensitivity, pending_timers>>

\* a single-shot timer fires and calls analyze
TimerFires ==
    /\ pending_timers > 0
    /\ analyzing < MaxNesting
    /\ pending_timers' = pending_timers - 1
    /\ EnterAnalyze
    /\ UNCHANGED <<current_pixmap, ui_sensitivity, debug_cb, user_events>>

\* lines 916-939: processEvents has returned to the innermost call of
\* analyze, which reads the check box, the pixmap and the sensitivity, runs
\* ColorAnalyzer.analyze and shows the result
FinishAnalyze ==
    /\ analyzing > 0
    /\ analyzing' = analyzing - 1
    /\ result_label' = ResultText(AnalyzeOutcome(current_pixmap, ui_sensitivity,
                                                 debug_cb), debug_cb)
    /\ UNCHANGED <<current_pixmap, ui_sensitivity, debug_cb, pending_timers,
                   user_events>>

\* the window after __init__ and init_ui: no image, sensitivity 1.5
UIInit ==
    /\ current_pixmap = NoPixmap
    /\ ui_sensitivity = 15
    /\ debug_cb = FALSE
    /\ pending_timers = 0
    /\ analyzing = 0
    /\ result_label = LabelHidden
    /\ user_events = 0
    /\ pc = [c \in Calls |-> "idle"]
    /\ pixmap = [c \in Calls |-> NoPixmap]
    /\ sensitivity = [c \in Calls |-> 15]
    /\ debug = [c \in Calls |-> FALSE]
    /\ img_array = [c \in Calls |-> << >>]
    /\ grid_info = [c \in Calls |-> None]
    /\ detected_by = [c \in Calls |-> "none"]
    /\ cell_colors = [c \in Calls |-> << >>]
    /\ different_cells = [c \in Calls |-> << >>]
    /\ result = [c \in Calls |-> None]
    /\ error = [c \in Calls |-> None]
    /\ fd_pc = "idle"
    /\ fd_colors = << >>
    /\ fd_sens = 15
    /\ fd_out = << >>
    /\ fd_prev = [sens |-> 15, out |-> << >>]

\* the events the Qt event loop delivers, at top level or inside processEvents
UINext ==
    \/ \E pm \in UIPixmaps : LoadImage(pm) /\ UNCHANGED <<call_vars, fd_vars>>
    \/ \E v \in SliderValues : SensitivityChanged(v) /\ UNCHANGED <<call_vars, fd_vars>>
    \/ DebugToggled /\ UNCHANGED <<call_vars, fd_vars>>
    \/ TimerFires /\ UNCHANGED <<call_vars, fd_vars>>
    \/ FinishAnalyze /\ UNCHANGED <<call_vars, fd_vars>>

\* the event loop keeps running: a timer that is due fires (TimerFires is the
\* one action that takes a timer off pending_timers), and processEvents
\* returns (FinishAnalyze is the one action that lowers analyzing)
SpecUI ==
    /\ UIInit /\ [][UINext]_vars
    /\ WF_pending_timers(/\ pending_timers > 0 /\ analyzing < MaxNesting
                          /\ pending_timers' = pending_timers - 1)
    /\ WF_analyzing(analyzing > 0 /\ analyzing' = analyzing - 1)

---------------------------------------------------------------------------
\* properties

\* the candidates _fallback_grid scores: rows, cols in 2..7 with cells of at
\* least 20 x 20 pixels
FallbackCandidates(img) ==
    {rc \in (2..7) \X (2..7) :
        Height(img) \div rc[1] >= 20 /\ Width(img) \div rc[2] >= 20}

SomeCandidateScores(img) ==
    \E rc \in FallbackCandidates(img) :
        ScoreGrid(img, UniformCells(rc[1], rc[2], Height(img) \div rc[1],
                                    Width(img) \div rc[2]), rc[1], rc[2])[1] > 0

\* some pixel is darker than the corner brightness by more than 20
HasForeground(img) ==
    LET fb == ForegroundBound(img)
    IN  \E y \in 1..Height(img) : \E x \in 1..Width(img) :
           fb.scale * Gray3(img[y][x]) < fb.bound

\* C1: a finished call of analyze carries exactly one of result and error; it
\* carries the error exactly when detection produced no grid, which is exactly
\* when the image has no foreground (the gap strategy does not apply) and no
\* fallback candidate scores above 0.
C1_ErrorIffNoGrid ==
    \A c \in Calls : pc[c] = "done" =>
        /\ (result[c] = None) # (error[c] = None)
        /\ (error[c] # None) <=> (grid_info[c] = None)
        /\ (detected_by[c] = "gap") <=> HasForeground(img_array[c])
        /\ (grid_info[c] = None) <=>
              (~HasForeground(img_array[c]) /\ ~SomeCandidateScores(img_array[c]))

\* C1 witness: a call that ended with the error after the fallback ran on an
\* image that has candidates
C1_Witness ==
    /\ pc[1] = "done" /\ error[1] # None /\ result[1] = None
    /\ detected_by[1] = "fallback"
    /\ FallbackCandidates(img_array[1]) # {}

\* the nine colours of the single-outlier scenario, colour b at index k
NineColors(a, b, k) == [i \in 1..9 |-> IF i = k + 1 THEN b ELSE a]

\* C2: on a 3x3 grid whose sampled colours are (200,50,50) except (50,200,50)
\* at index k, analyze with sensitivity 1.5 reports exactly one outlier, at
\* row k div 3 + 1 and column k mod 3 + 1 (index 4: row 2, column 2).
C2_SingleOutlier ==
    \A c \in Calls : \A k \in 0..8 :
        ( /\ pc[c] = "done" /\ grid_info[c] # None
          /\ sensitivity[c] = 15
          /\ cell_colors[c] = NineColors(RGB(200, 50, 50), RGB(50, 200, 50), k) )
        => /\ grid_info[c][1].rows = 3 /\ grid_info[c][1].cols = 3
           /\ result[c] # None
           /\ Len(result[c][1].results) = 1
           /\ result[c][1].results[1].row = (k \div 3) + 1
           /\ result[c][1].results[1].col = (k % 3) + 1
           /\ result[c][1].results[1].color = <<50, 200, 50>>

C2_Witness ==
    /\ pc[1] = "done" /\ sensitivity[1] = 15
    /\ cell_colors[1] = NineColors(RGB(200, 50, 50), RGB(50, 200, 50), 4)
    /\ result[1] # None
    /\ result[1][1].results = <<[row |-> 2, col |-> 2, color |-> <<50, 200, 50>>]>>

\* every two colours are closer than min_threshold = 10 / sensitivity
AllPairsCloser(colors, sens) ==
    \A i, j \in 1..Len(colors) : Dist(colors[i], colors[j]) * sens < 10 * SensDen * FP

\* C3: when all sampled colours are pairwise closer than 10 / sensitivity, the
\* classifier returns the empty list and analyze reports no outliers.
C3_CloseColorsNoOutliers ==
    \A c \in Calls :
        (pc[c] \in {"report", "done"} /\ grid_info[c] # None
           /\ AllPairsCloser(cell_colors[c], sensitivity[c]))
        => /\ different_cells[c] = << >>
           /\ pc[c] = "done" => (result[c] # None /\ result[c][1].results = << >>)

\* C3 witness, identical case: a finished call on a 3x3 grid of nine
\* identical colours
C3_WitnessIdentical ==
    /\ pc[1] = "done" /\ result[1] # None
    /\ cell_colors[1] = [i \in 1..9 |-> RGB(200, 50, 50)]
    /\ result[1][1].grid_size = <<3, 3>>
    /\ result[1][1].results = << >>

\* C3 witness, non-identical case: a finished call whose sampled colours
\* differ but are pairwise closer than the threshold, reporting no outliers
C3_WitnessNear ==
    /\ pc[1] = "done" /\ result[1] # None
    /\ \E i, j \in 1..Len(cell_colors[1]) : cell_colors[1][i] # cell_colors[1][j]
    /\ AllPairsCloser(cell_colors[1], sensitivity[1])
    /\ result[1][1].results = << >>

\* C4: the classifier's indices are strictly ascending and within
\* [0, rows*cols); entry i of the outliers is the cell of index i at
\* row idx div cols + 1 in 1..rows and column idx mod cols + 1 in 1..cols, no
\* two entries share (row, col), and debug_colors lists the cells in
\* row-major order.
C4_IndicesAscendingInRange ==
    \A c \in Calls :
        (pc[c] \in {"report", "done"} /\ grid_info[c] # None) =>
        LET g == grid_info[c][1]
            dc == different_cells[c]
        IN  /\ \A i \in 1..Len(dc) : 0 <= dc[i] /\ dc[i] < g.rows * g.cols
            /\ \A i \in 1..(Len(dc) - 1) : dc[i] < dc[i + 1]
            /\ pc[c] = "done" =>
                 LET r == result[c][1].results
                 IN  /\ Len(r) = Len(dc)
                     /\ \A i \in 1..Len(r) :
                          /\ r[i].row = (dc[i] \div g.cols) + 1
                          /\ r[i].col = (dc[i] % g.cols) + 1
                          /\ r[i].row \in 1..g.rows
                          /\ r[i].col \in 1..g.cols
                     /\ \A i, j \in 1..Len(r) :
                          i # j => <<r[i].row, r[i].col>> # <<r[j].row, r[j].col>>
                     /\ result[c][1].debug_colors # None =>
                          LET dbg == result[c][1].debug_colors[1]
                          IN  \A i \in 1..Len(dbg) :
                                /\ dbg[i].row \in 1..g.rows
                                /\ dbg[i].col \in 1..g.cols
                                /\ (dbg[i].row - 1) * g.cols + (dbg[i].col - 1) = i - 1

\* C4 witness: a finished debug call that reports two or more outliers on a
\* grid with more columns than rows
C4_Witness ==
    /\ pc[1] = "done" /\ result[1] # None
    /\ Len(result[1][1].results) >= 2
    /\ result[1][1].debug_colors # None
    /\ grid_info[1][1].cols > grid_info[1][1].rows

\* C5: for every detected grid rows*cols is the number of cell rectangles, of
\* sampled colours and, in debug mode, of debug_colors entries.
C5_GridCompleteness ==
    \A c \in Calls : grid_info[c] # None =>
        LET g == grid_info[c][1]
        IN  /\ g.rows * g.cols = Len(g.cells)
            /\ pc[c] \in {"classify", "report", "done"} =>
                  Len(cell_colors[c]) = g.rows * g.cols
            /\ pc[c] = "done" =>
                  /\ result[c][1].grid_size = <<g.rows, g.cols>>
                  /\ debug[c] <=> (result[c][1].debug_colors # None)
                  /\ debug[c] => Len(result[c][1].debug_colors[1]) = g.rows * g.cols

\* C5 witness: a finished debug call on a grid found by the fallback
C5_Witness ==
    /\ pc[1] = "done" /\ debug[1] /\ result[1] # None
    /\ detected_by[1] = "fallback"
    /\ Len(result[1][1].debug_colors[1]) = 6

\* C6: two finished calls with the same (image, sensitivity, debug) carry the
\* same result and error, whatever calls ran before or between their steps.
C6_SameInputsSameOutput ==
    \A c1, c2 \in Calls :
        ( /\ pc[c1] = "done" /\ pc[c2] = "done"
          /\ pixmap[c1] = pixmap[c2]
          /\ sensitivity[c1] = sensitivity[c2]
          /\ debug[c1] = debug[c2] )
        => (result[c1] = result[c2] /\ error[c1] = error[c2])

\* C6 witness: both callers finished on the same input with a result that
\* reports an outlier
C6_Witness ==
    /\ pc[1] = "done" /\ pc[2] = "done"
    /\ pixmap[1] = pixmap[2] /\ sensitivity[1] = sensitivity[2] /\ debug[1] = debug[2]
    /\ result[1] # None /\ Len(result[1][1].results) > 0

\* every pixel of the image has the colour of its first pixel
IsUniform(img) ==
    \A y \in 1..Height(img) : \A x \in 1..Width(img) : img[y][x] = img[1][1]

\* C7 (as claimed): a finished call on a uniform solid-colour image carries
\* the no-grid error and no result.
C7_SolidImageIsNoGrid ==
    \A c \in Calls :
        (pc[c] = "done" /\ IsUniform(img_array[c]))
        => (error[c] # None /\ result[c] = None)

\* C8: raising the sensitivity on the same colours never turns a non-empty
\* outlier list into an empty one.
C8_SensitivityMonotone ==
    (fd_pc = "raised" /\ fd_prev.sens < fd_sens /\ Len(fd_prev.out) > 0)
    => Len(fd_out) > 0

\* C8 witness: an outlier found by the last-resort strategy, whose gate
\* depends on the sensitivity, and found again at the raised sensitivity
C8_Witness ==
    /\ fd_pc = "raised" /\ fd_prev.sens < fd_sens
    /\ Len(fd_colors) = 2
    /\ Len(fd_prev.out) > 0 /\ Len(fd_out) > 0

\* C9 (as claimed): a grid produced by the gap strategy has at least two rows
\* and two columns.
C9_GapGridAtLeast2x2 ==
    \A c \in Calls :
        (grid_info[c] # None /\ detected_by[c] = "gap")
        => (grid_info[c][1].rows >= 2 /\ grid_info[c][1].cols >= 2)

\* two cell rectangles share no pixel
Disjoint(a, b) ==
    \/ a[1] + a[3] <= b[1] \/ b[1] + b[3] <= a[1]
    \/ a[2] + a[4] <= b[2] \/ b[2] + b[4] <= a[2]

\* C10: every cell rectangle of a detected grid has positive width and height
\* and lies inside the image, and the cells of one grid do not overlap.
C10_CellsInsideImage ==
    \A c \in Calls : grid_info[c] # None =>
        LET cells == grid_info[c][1].cells
        IN  /\ \A i \in 1..Len(cells) :
                 /\ cells[i][3] > 0 /\ cells[i][4] > 0
                 /\ 0 <= cells[i][1]
                 /\ cells[i][1] + cells[i][3] <= Width(img_array[c])
                 /\ 0 <= cells[i][2]
                 /\ cells[i][2] + cells[i][4] <= Height(img_array[c])
            /\ \A i, j \in 1..Len(cells) : i < j => Disjoint(cells[i], cells[j])

\* C10 witness: a gap-detected grid of several rows and columns whose first
\* cell does not start at the image corner
C10_Witness ==
    /\ grid_info[1] # None /\ detected_by[1] = "gap"
    /\ grid_info[1][1].rows >= 2 /\ grid_info[1][1].cols >= 2
    /\ grid_info[1][1].cells[1][1] > 0

\* the image is a rows x cols layout of equal patches, each of one colour and
\* unlike the patches next to it
IsPatchLayout(img, rows, cols) ==
    /\ Height(img) > 0
    /\ Height(img) % rows = 0 /\ Width(img) % cols = 0
    /\ LET ph == Height(img) \div rows
           pw == Width(img) \div cols
           patch(i, j) == img[(i * ph) + 1][(j * pw) + 1]
       IN  /\ \A y \in 1..Height(img) : \A x \in 1..Width(img) :
                  img[y][x] = patch((y - 1) \div ph, (x - 1) \div pw)
           /\ \A i \in 0..(rows - 1) : \A j \in 0..(cols - 2) :
                  patch(i, j) # patch(i, j + 1)
           /\ \A i \in 0..(rows - 2) : \A j \in 0..(cols - 1) :
                  patch(i, j) # patch(i + 1, j)

\* C11 (as claimed): an image without foreground that is a 2x4 layout of
\* uniform patches unlike their neighbours is detected as the grid 2x4.
C11_Patch2x4IsGrid2x4 ==
    \A c \in Calls :
        ( /\ detected_by[c] # "none"
          /\ ~HasForeground(img_array[c])
          /\ IsPatchLayout(img_array[c], 2, 4) )
        => ( /\ grid_info[c] # None
             /\ grid_info[c][1].rows = 2 /\ grid_info[c][1].cols = 4 )

\* the neutral gray np.array([128, 128, 128])
NeutralGray == RGB(128, 128, 128)

\* a cell rectangle smaller than 5x5 pixels
SmallCell(cell) == cell[3] < 5 /\ cell[4] < 5

\* C12 (as claimed): the colour sampled for a cell smaller than 5x5 pixels is
\* the neutral gray (128,128,128).
C12_SmallCellIsGray ==
    \A c \in Calls :
        (pc[c] \in {"classify", "report", "done"} /\ grid_info[c] # None) =>
        \A i \in 1..Len(grid_info[c][1].cells) :
            SmallCell(grid_info[c][1].cells[i]) => cell_colors[c][i] = NeutralGray

\* C12 (amended): sampling yields exactly one colour per cell; the sample
\* window of every cell, clamped to the image, holds at least one pixel, so
\* the neutral gray of the empty window is never what sampling returns for
\* want of pixels; every sampled channel lies between the least and the
\* greatest value of that channel in the image; and a cell smaller than 5x5
\* gets the mean of the image over the rows cy-2 .. cy+1 and columns
\* cx-2 .. cx+1 around its centre (cx, cy), clamped to the image.
C12_OneColourPerCellFromPixels ==
    \A c \in Calls :
        (pc[c] \in {"classify", "report", "done"} /\ grid_info[c] # None) =>
        LET img == img_array[c]
            cells == grid_info[c][1].cells
        IN  /\ Len(cell_colors[c]) = Len(cells)
            /\ \A i \in 1..Len(cells) :
                 LET cx == cells[i][1] + (cells[i][3] \div 2)
                     cy == cells[i][2] + (cells[i][4] \div 2)
                     col == cell_colors[c][i]
                 IN  /\ Len(col) = 3
                     /\ 0 <= cx /\ cx < Width(img) /\ 0 <= cy /\ cy < Height(img)
                     /\ \A k \in 1..3 :
                          /\ \E y \in 1..Height(img) : \E x \in 1..Width(img) :
                                 img[y][x][k] * FP <= col[k]
                          /\ \E y \in 1..Height(img) : \E x \in 1..Width(img) :
                                 col[k] <= img[y][x][k] * FP
                     /\ SmallCell(cells[i]) =>
                          col = RegionMean(img, Max(0, cy - 2), Min(Height(img), cy + 2),
                                           Max(0, cx - 2), Min(Width(img), cx + 2))

\* C12 witness: a sampled grid with a cell smaller than 5x5 whose colour is
\* not the neutral gray
C12_Witness ==
    /\ pc[1] = "classify" /\ grid_info[1] # None
    /\ \E i \in 1..Len(grid_info[1][1].cells) :
          /\ SmallCell(grid_info[1][1].cells[i])
          /\ cell_colors[1][i] # NeutralGray

\* C13 (as claimed): a call of _find_different with any sensitivity, 0 and
\* negative values included, returns a list and raises no error.
C13_AnySensitivityAccepted == fd_pc # "error"

\* a call of _find_different has returned its list in fd_out
FDReturned == fd_pc \in {"called", "raised", "returned"}

\* the isolation gate let the colours through
GatePassed(colors, sens) ==
    Len(colors) >= 2 /\ ~BelowThreshold(MaxSeq(AvgDistances(colors)), sens)

\* C14: past the isolation gate the returned list is the z-score set if that
\* is non-empty; else the MAD set if non-empty; else empty if the largest
\* pairwise distance is below 10 / sensitivity; else the strictly smaller of
\* the two clusters; and with clusters of equal size or an empty one, a single
\* index of largest distance to the median colour if that distance exceeds
\* 10 / sensitivity, else empty.
C14_FirstStrategyWins ==
    (FDReturned /\ GatePassed(fd_colors, fd_sens)) =>
    LET zs == ZScoreOutliers(AvgDistances(fd_colors))
        dm == DistancesToMedian(fd_colors)
        ms == MADOutliers(dm)
        mp == MaxPair(fd_colors)
        cl == KMeans(fd_colors, fd_colors[mp.center1_idx + 1],
                     fd_colors[mp.center2_idx + 1], 1)
        n1 == Len(cl.cluster1)
        n2 == Len(cl.cluster2)
    IN  IF zs # << >> THEN fd_out = zs
        ELSE IF ms # << >> THEN fd_out = ms
        ELSE IF BelowThreshold(mp.dist, fd_sens) THEN fd_out = << >>
        ELSE IF n1 > 0 /\ n2 > 0 /\ n1 < n2 THEN fd_out = cl.cluster1
        ELSE IF n1 > 0 /\ n2 > 0 /\ n2 < n1 THEN fd_out = cl.cluster2
        ELSE IF AboveThreshold(MaxSeq(dm), fd_sens)
             THEN Len(fd_out) = 1 /\ dm[fd_out[1] + 1] = MaxSeq(dm)
             ELSE fd_out = << >>

\* C14 witness: a returned call in which the z-score test found nothing and
\* the MAD test produced the result
C14_Witness ==
    /\ FDReturned /\ GatePassed(fd_colors, fd_sens)
    /\ ZScoreOutliers(AvgDistances(fd_colors)) = << >>
    /\ MADOutliers(DistancesToMedian(fd_colors)) # << >>
    /\ fd_out = MADOutliers(DistancesToMedian(fd_colors))

\* a returned call in which the z-score and MAD tests found nothing, the
\* clusters were of equal size and the last resort produced the result
C14_WitnessLastResort ==
    /\ FDReturned /\ GatePassed(fd_colors, fd_sens)
    /\ ZScoreOutliers(AvgDistances(fd_colors)) = << >>
    /\ MADOutliers(DistancesToMedian(fd_colors)) = << >>
    /\ Len(fd_colors) = 4
    /\ Len(fd_out) = 1

\* C18: for sensitivity > 0 the list returned for n >= 2 colours holds at most
\* n / 2 indices, all different and within 0 .. n-1: never a majority of the
\* cells, whichever strategy produced it.
C18_OutliersAreMinority ==
    (FDReturned /\ fd_sens > 0 /\ Len(fd_colors) >= 2) =>
        /\ 2 * Len(fd_out) <= Len(fd_colors)
        /\ \A i \in 1..Len(fd_out) : fd_out[i] \in 0..(Len(fd_colors) - 1)
        /\ \A i, j \in 1..Len(fd_out) : i # j => fd_out[i] # fd_out[j]

\* C18 witness: the bound is met, a first call on two colours returned one of
\* them
C18_Witness ==
    /\ fd_pc = "called" /\ fd_sens > 0
    /\ Len(fd_colors) = 2 /\ Len(fd_out) = 1

\* the columns and rows spanned by the cells of a gap-detected grid: the
\* bounding box [start, end) handed to _find_gaps
SpanW(g) == g.cells[g.cols][1] + g.cells[g.cols][3] - g.cells[1][1]
SpanH(g) == g.cells[Len(g.cells)][2] + g.cells[Len(g.cells)][4] - g.cells[1][2]

\* C15 (as claimed): the splits of a gap-detected grid start at the box's
\* start, end at its end and are strictly increasing, and every two
\* consecutive splits, the last one and the closing end included, are more
\* than 5 % of (end - start) apart: every cell is wider than 5 % of the box's
\* width and higher than 5 % of its height.
C15_SplitsMoreThan5Percent ==
    \A c \in Calls :
        (grid_info[c] # None /\ detected_by[c] = "gap") =>
        LET g == grid_info[c][1]
        IN  \A i \in 1..Len(g.cells) :
               /\ g.cells[i][3] > 0 /\ g.cells[i][4] > 0
               /\ 20 * g.cells[i][3] > SpanW(g)
               /\ 20 * g.cells[i][4] > SpanH(g)

\* the score of the candidate rc = <<rows, cols>> on the image
CandidateScore(img, rc) ==
    ScoreGrid(img, UniformCells(rc[1], rc[2], Height(img) \div rc[1],
                                Width(img) \div rc[2]), rc[1], rc[2])

\* candidate a comes before candidate b in the iteration over (rows, cols)
Before(a, b) == a[1] < b[1] \/ (a[1] = b[1] /\ a[2] < b[2])

\* C16: the fallback returns no grid exactly when no candidate with rows and
\* cols in 2..7 and cells of at least 20x20 pixels scores above 0; otherwise
\* it returns, with its equal cells in row-major order, the candidate whose
\* score no candidate exceeds and that no earlier candidate equals.
C16_FallbackPicksFirstBest ==
    \A c \in Calls :
        (detected_by[c] = "fallback" /\ (pc[c] = "sample" \/ error[c] # None)) =>
        LET img == img_array[c]
            cands == FallbackCandidates(img)
            score == [rc \in cands |-> CandidateScore(img, rc)]
        IN  IF \A rc \in cands : score[rc][1] = 0
            THEN grid_info[c] = None
            ELSE /\ grid_info[c] # None
                 /\ LET g == grid_info[c][1]
                        rc == <<g.rows, g.cols>>
                    IN  /\ rc \in cands
                        /\ \A o \in cands : ~ScoreGreater(score[o], score[rc])
                        /\ \A o \in cands :
                             Before(o, rc) => ScoreGreater(score[rc], score[o])
                        /\ g.cells = UniformCells(g.rows, g.cols,
                                                  Height(img) \div g.rows,
                                                  Width(img) \div g.cols)

\* C16 witness: the fallback returned a candidate that a later candidate
\* equals in score
C16_Witness ==
    /\ detected_by[1] = "fallback" /\ grid_info[1] # None
    /\ LET img == img_array[1]
           rc == <<grid_info[1][1].rows, grid_info[1][1].cols>>
       IN  \E o \in FallbackCandidates(img) :
              /\ Before(rc, o)
              /\ ~ScoreGreater(CandidateScore(img, o), CandidateScore(img, rc))
              /\ ~ScoreGreater(CandidateScore(img, rc), CandidateScore(img, o))

\* no timer is pending and no call of MainWindow.analyze is running
Settled == pending_timers = 0 /\ analyzing = 0

\* result_label shows the analysis of the current image at the current
\* sensitivity and debug setting
ShowsCurrent ==
    result_label = ResultText(AnalyzeOutcome(current_pixmap, ui_sensitivity, debug_cb),
                              debug_cb)

\* C17: once an image is loaded, every time the timers have all fired and no
\* analysis is running the label shows the analysis of the image loaded last
\* at the sensitivity set last; every analysis that finishes shows the
\* analysis of the pixmap and sensitivity current at that moment; and after
\* a load or a change of sensitivity with an image loaded the window does
\* come to rest with an analysis shown (by the first part, that of the
\* current image and sensitivity).
C17_DisplayFollowsInput ==
    /\ []((current_pixmap # NoPixmap /\ Settled) => ShowsCurrent)
    /\ [][analyzing' < analyzing =>
            result_label' = ResultText(AnalyzeOutcome(current_pixmap, ui_sensitivity,
                                                      debug_cb), debug_cb)]_vars
    /\ ((current_pixmap # NoPixmap) ~>
            (Settled /\ result_label.kind \notin {"hidden", "busy"}))

\* C17 witness: after a load and a move of the slider the window is at rest
\* and shows an outlier found at the new sensitivity
C17_Witness ==
    /\ current_pixmap # NoPixmap /\ Settled /\ ShowsCurrent
    /\ user_events >= 2 /\ ui_sensitivity # 15
    /\ result_label.kind = "found"

=============================================================================
